---- MODULE Spec2Model ----
(***************************************************************************)
(* Clipton: a clipboard manager.  The item store (class Items), the Rofi   *)
(* menu dispatcher (Rofi.show) and the clipboard watcher (Watcher.start)   *)
(* of src/clipton.py, as a state machine.  Texts are TLA+ strings; the     *)
(* string functions of the program (rstrip, strip, startswith, the two     *)
(* regular expressions) are computed character by character.  The store   *)
(* operations are followed one process at a time (SpecStore, SpecMenu,     *)
(* SpecWatcher) and with the two processes at once on the same items file, *)
(* each Files.write being an open and a close (SpecBoth).                  *)
(***************************************************************************)
EXTENDS Integers, Sequences, FiniteSets, TLC

VARIABLES
  Settings,    \* class Settings: the values read from settings.json
  inputs,      \* the texts the user copies in this run
  file,        \* items.json, as the list of items it holds
  fstate,      \* items.json: "whole" (the JSON of file), "truncated" (empty,
               \* a write has begun), "garbled" (text that does not parse)
  items,       \* Items.items of each process
  clipboard,   \* the X clipboard, as last written by Utils.copy_text
  todo,        \* of each process: the file writes and clipboard copies that
               \* the operation it is in has still to make
  now,         \* Utils.get_seconds()
  mpc,         \* menu process: "idle", "displaying", "confirming", "done",
               \* "crashed"
  selected,    \* menu process: the argument of the pending Rofi.show
  wpc,         \* watcher process: "idle", "running", "exit(1)"
  iterations,  \* Watcher.start: the local variable iterations
  streak,      \* history: loop iterations begun since the last reset (it
               \* stops counting past the cap)
  last         \* history: the last operation, its arguments and pre-state

vars == <<Settings, inputs, file, fstate, items, clipboard, todo, now, mpc,
          selected, wpc, iterations, streak, last>>

-----------------------------------------------------------------------------
(* Bounds of the model. *)

\* The clock runs from 0 to MaxTime.
MaxTime == 1

\* With the menu at its side, the watcher begins an iteration only with
\* fewer than MaxFailed failed ones behind it.
MaxFailed == 2

\* Items.join is called directly with 2 to MaxJoin items (the dispatcher
\* passes 2 to 9); MaxJoin is more than the longest list holds.
MaxJoin == 4

-----------------------------------------------------------------------------
(* Strings. *)

\* The character of s at position i (1-based), as a one-character string.
CharAt(s, i) == SubSeq(s, i, i)

\* str.isspace for the characters the model uses.
Whitespace == {" ", "\n", "\t"}

Letters ==
  {"a","b","c","d","e","f","g","h","i","j","k","l","m","n","o","p","q","r",
   "s","t","u","v","w","x","y","z",
   "A","B","C","D","E","F","G","H","I","J","K","L","M","N","O","P","Q","R",
   "S","T","U","V","W","X","Y","Z"}

\* [\d]
Digits == {"0","1","2","3","4","5","6","7","8","9"}

\* [\w-]
IdChars == Letters \cup Digits \cup {"_", "-"}

\* str.rstrip(): drop the trailing whitespace.
RECURSIVE rstrip(_)
rstrip(s) ==
  IF Len(s) > 0 /\ CharAt(s, Len(s)) \in Whitespace
    THEN rstrip(SubSeq(s, 1, Len(s) - 1))
    ELSE s

\* str.lstrip(): drop the leading whitespace.
RECURSIVE lstrip(_)
lstrip(s) ==
  IF Len(s) > 0 /\ CharAt(s, 1) \in Whitespace
    THEN lstrip(SubSeq(s, 2, Len(s)))
    ELSE s

\* str.strip()
strip(s) == lstrip(rstrip(s))

\* str.startswith(prefix)
startswith(s, prefix) ==
  Len(s) >= Len(prefix) /\ SubSeq(s, 1, Len(prefix)) = prefix

\* s has the literal lit at position i.
HasAt(s, i, lit) ==
  i + Len(lit) - 1 <= Len(s) /\ SubSeq(s, i, i + Len(lit) - 1) = lit

\* Utils.space: the text contains a whitespace character.
space(text) == \E i \in 1..Len(text) : CharAt(text, i) \in Whitespace

\* str.count("\n")
count_newlines(text) == Cardinality({i \in 1..Len(text) : CharAt(text, i) = "\n"})

\* The end of the longest run of characters of set cs that starts at i
\* (i - 1 when the run is empty): a greedy [cs]* .
RECURSIVE RunEnd(_, _, _)
RunEnd(s, i, cs) ==
  IF i <= Len(s) /\ CharAt(s, i) \in cs THEN RunEnd(s, i + 1, cs) ELSE i - 1

-----------------------------------------------------------------------------
(* Converters. *)

\* The leftmost position where  https://youtu.be/([\w-]+)  matches (the dot
\* of the pattern is unescaped: any character but a line break), or 0.
youtu_be_search(text) ==
  LET hits == {i \in 1..Len(text) :
                 /\ HasAt(text, i, "https://youtu")
                 /\ i + 13 <= Len(text)
                 /\ CharAt(text, i + 13) # "\n"
                 /\ HasAt(text, i + 14, "be/")
                 /\ RunEnd(text, i + 17, IdChars) >= i + 17}
  IN IF hits = {} THEN 0 ELSE CHOOSE i \in hits : \A j \in hits : i <= j

\* Converters.youtu_be: youtu.be -> youtube ("" when the rule does not fire).
youtu_be(text) ==
  IF space(text) THEN ""
  ELSE LET at == youtu_be_search(text) IN
    IF at = 0 THEN ""
    ELSE LET idEnd == RunEnd(text, at + 17, IdChars)
             video_id == SubSeq(text, at + 17, idEnd)
             tsEnd == RunEnd(text, idEnd + 4, Digits)
             hasTs == HasAt(text, idEnd + 1, "?t=") /\ tsEnd >= idEnd + 4
             \* match.group(2): the whole optional group, "?t=" included
             timestamp == IF hasTs THEN SubSeq(text, idEnd + 1, tsEnd) ELSE ""
         IN IF timestamp # ""
              THEN "https://www.youtube.com/watch?v=" \o video_id
                     \o "&t=" \o timestamp \o "s"
              ELSE "https://www.youtube.com/watch?v=" \o video_id

\* The leftmost position where
\*   https://music\.youtube\.com/(watch\?v=([\w-]+)|playlist\?list=([\w-]+))
\* matches, or 0.
youtube_music_search(text) ==
  LET hits == {i \in 1..Len(text) :
                 /\ HasAt(text, i, "https://music.youtube.com/")
                 /\ \/ /\ HasAt(text, i + 26, "watch?v=")
                       /\ RunEnd(text, i + 34, IdChars) >= i + 34
                    \/ /\ HasAt(text, i + 26, "playlist?list=")
                       /\ RunEnd(text, i + 40, IdChars) >= i + 40}
  IN IF hits = {} THEN 0 ELSE CHOOSE i \in hits : \A j \in hits : i <= j

\* Converters.youtube_music: music.youtube -> youtube.
youtube_music(text) ==
  IF space(text) THEN ""
  ELSE LET at == youtube_music_search(text) IN
    IF at = 0 THEN ""
    ELSE IF HasAt(text, at + 26, "watch?v=")
      THEN "https://www.youtube.com/watch?v="
             \o SubSeq(text, at + 34, RunEnd(text, at + 34, IdChars))
      ELSE "https://www.youtube.com/playlist?list="
             \o SubSeq(text, at + 40, RunEnd(text, at + 40, IdChars))

\* Converters.convert: the first enabled rule that fires, "" when none does.
convert(text) ==
  LET first == IF Settings.converters.youtu_be THEN youtu_be(text) ELSE ""
  IN IF first = "" /\ Settings.converters.youtube_music
       THEN youtube_music(text)
       ELSE first

-----------------------------------------------------------------------------
(* Items: the store of one process.  A store state st is the process's     *)
(* Items.items together with what the process can reach outside itself:    *)
(* the items file and the clipboard; st.raised tells that an exception is  *)
(* propagating, which skips the statements that follow.                    *)

Procs == {"menu", "watcher"}

Min(a, b) == IF a <= b THEN a ELSE b
Max(a, b) == IF a >= b THEN a ELSE b

\* The store state of process p at the start of an operation; st.log is the
\* sequence of the file writes and clipboard copies the operation has made.
StoreOf(p) ==
  [items |-> items[p], file |-> file, clipboard |-> clipboard, raised |-> FALSE,
   log |-> <<>>]

\* A process that is not inside an operation.
Idle == [log |-> <<>>, opened |-> FALSE, raised |-> FALSE, text |-> "", then |-> ""]

\* What the title resolver can do for a URL: no title, a title, an exception.
TitleResults ==
  {[raised |-> FALSE, title |-> ""],
   [raised |-> FALSE, title |-> "Title"],
   [raised |-> TRUE, title |-> ""]}

NoTitle == [raised |-> FALSE, title |-> ""]

\* Utils.get_title: only an https:// text without whitespace is fetched;
\* page is what the fetch does.
get_title(text, page) ==
  IF startswith(text, "https://") /\ ~space(text) THEN page ELSE NoTitle

\* What the title resolver can do when Items.add is handed this text: the
\* resolver is only reached with titles enabled and for a text it fetches.
PagesFor(text) ==
  IF Settings.enable_titles /\ get_title(rstrip(text), [raised |-> TRUE, title |-> ""]).raised
    THEN TitleResults
    ELSE {NoTitle}

\* Item.from_text
from_text(text, title) ==
  [text |-> text, date |-> now, num_lines |-> count_newlines(text) + 1,
   title |-> title]

\* Python's  del its[i]  for a 0-based i in range.
RemoveAt(its, i) == SubSeq(its, 1, i) \o SubSeq(its, i + 2, Len(its))

\* Python's  its[a:b]  for 0 <= a <= b.
Slice(its, a, b) == SubSeq(its, a + 1, Min(b, Len(its)))

\* Python's  reversed(its)
Reverse(its) == [i \in 1..Len(its) |-> its[Len(its) + 1 - i]]

\* Item.to_dict: the attributes of the item, as json.dumps writes them.
to_dict(item) ==
  [text |-> item.text, date |-> item.date, num_lines |-> item.num_lines,
   title |-> item.title]

\* json.dumps(Items.items, default = Item.to_dict): the array of the items.
dumps(its) == [i \in 1..Len(its) |-> to_dict(its[i])]

\* An object hook that does not read the title back.
from_json_Untitled(obj) ==
  [text |-> obj.text, date |-> obj.date, num_lines |-> obj.num_lines,
   title |-> ""]

\* Item.from_json: an item with the four values of the JSON object.
from_json(obj) ==
  [text |-> obj.text, date |-> obj.date, num_lines |-> obj.num_lines,
   title |-> obj.title]

\* json.loads(content, object_hook = Item.from_json)
loads(content) == [i \in 1..Len(content) |-> from_json(content[i])]

\* Items.write: the whole list replaces the file.
write(st) ==
  [st EXCEPT !.file = dumps(st.items),
             !.log = Append(@, [do |-> "write", content |-> dumps(st.items)])]

\* Utils.copy_text
copy_text(st, text) ==
  [st EXCEPT !.clipboard = text,
             !.log = Append(@, [do |-> "copy", content |-> text])]

\* An add without the test on the length of the text.
AddRejects_AnyLength(text) ==
  \/ text = ""
  \/ startswith(text, "file://")

\* Items.add, the three early returns (text is already right-trimmed).
AddRejects(text) ==
  \/ text = ""
  \/ startswith(text, "file://")
  \/ Len(text) > Settings.heavy_paste

\* A loop that never finds the text.
IndexOfText_NoMatch(its, text) == -1

\* Items.add, the loop: the 0-based index of the first item with this text,
\* or -1.
IndexOfText(its, text) ==
  LET hits == {i \in 1..Len(its) : its[i].text = text}
  IN IF hits = {} THEN -1 ELSE (CHOOSE i \in hits : \A j \in hits : i <= j) - 1

\* Items.add:  Items.items.insert(0, the_item)
InsertFront(its, the_item) == <<the_item>> \o its

\* A slice that keeps the newest item and drops the one after it.
Truncate_DropsSecond(its) ==
  IF Len(its) > Settings.max_items
    THEN <<its[1]>> \o SubSeq(its, 3, Settings.max_items + 1)
    ELSE its

\* Items.add:  Items.items[0:Settings.max_items]
Truncate(its) ==
  LET m == Settings.max_items
  IN IF m >= 0 THEN SubSeq(its, 1, Min(m, Len(its)))
               ELSE SubSeq(its, 1, Max(Len(its) + m, 0))

\* An existing item that is put back as a new item of the same text.
MoveToFront_Refreshed(its, at) ==
  InsertFront(RemoveAt(its, at), from_text(its[at + 1].text, its[at + 1].title))

\* Items.add, an existing item: it is taken out of the list and put back at
\* the front as it is.
MoveToFront(its, at) == InsertFront(RemoveAt(its, at), its[at + 1])

\* Items.add
add(st, text0, page) ==
  LET text == rstrip(text0) IN
  IF st.raised \/ AddRejects(text) THEN st
  ELSE LET at == IndexOfText(st.items, text) IN
    IF at >= 0
      THEN write([st EXCEPT !.items = Truncate(MoveToFront(st.items, at))])
      ELSE LET got == IF Settings.enable_titles THEN get_title(text, page)
                                                ELSE NoTitle
           IN IF got.raised THEN [st EXCEPT !.raised = TRUE]
              ELSE write([st EXCEPT !.items =
                     Truncate(InsertFront(st.items, from_text(text, got.title)))])

\* Items.insert
insert(st, text, page) ==
  LET converted == IF Settings.enable_converters THEN convert(text) ELSE "" IN
  IF converted # ""
    THEN LET st2 == add(add(st, "Original: " \o text, page), converted, page)
         IN IF st2.raised THEN st2 ELSE copy_text(st2, converted)
    ELSE add(st, text, page)

\* A select that copies the newest item, whatever the index.
select_First(st, index) == copy_text(st, st.items[1].text)

\* Items.select
select(st, index) == copy_text(st, st.items[index + 1].text)

\* Items.delete
delete(st, index) == write([st EXCEPT !.items = RemoveAt(st.items, index)])

\* Items.delete_all
delete_all(st) == write([st EXCEPT !.items = <<>>])

\* " ".join(item.text.strip() for item in item_slice)
RECURSIVE JoinTexts(_)
JoinTexts(its) ==
  IF Len(its) = 0 THEN ""
  ELSE IF Len(its) = 1 THEN strip(its[1].text)
  ELSE strip(its[1].text) \o " " \o JoinTexts(Tail(its))

\* Items.join, the text s that the items index .. index+num-1 merge into.
join_text(its, index, num) ==
  LET item_slice == IF Settings.reverse_join
                      THEN Reverse(Slice(its, index, index + num))
                      ELSE Slice(its, index, index + num)
  IN JoinTexts(item_slice)

\* Items.join, del Items.items[index:index_2]
DeleteSlice(its, index, index_2) ==
  SubSeq(its, 1, index) \o SubSeq(its, index_2 + 1, Len(its))

\* Items.join
join(st, index, num, page) ==
  LET s == join_text(st.items, index, num)
      st2 == add([st EXCEPT !.items = DeleteSlice(st.items, index, index + num)],
                 s, page)
  IN IF st2.raised THEN st2 ELSE copy_text(write(st2), s)

-----------------------------------------------------------------------------
(* Settings and inputs. *)

BothConverters == [youtu_be |-> TRUE, youtube_music |-> TRUE]

\* settings.json and the texts copied, as the store operations are driven
\* with: a small store with short texts, where a join of three is a heavy
\* paste; a store where URLs fit; a store of one item without titles; a
\* store of one-character texts that joins in reverse.  max_items and heavy_paste are scaled down from 2000 and 5000.
StoreScenarios ==
  {[settings |->
      [max_items |-> 3, heavy_paste |-> 4, enable_titles |-> TRUE,
       enable_converters |-> TRUE, reverse_join |-> FALSE,
       converters |-> BothConverters],
    inputs |-> {"a", "b", "a "}],
   [settings |->
      [max_items |-> 2, heavy_paste |-> 40, enable_titles |-> TRUE,
       enable_converters |-> TRUE, reverse_join |-> FALSE,
       converters |-> BothConverters],
    inputs |-> {"https://youtu.be/x"}],
   [settings |->
      [max_items |-> 1, heavy_paste |-> 40, enable_titles |-> FALSE,
       enable_converters |-> TRUE, reverse_join |-> FALSE,
       converters |-> BothConverters],
    inputs |-> {"file://https://youtu.be/x"}],
   [settings |->
      [max_items |-> 2, heavy_paste |-> 1, enable_titles |-> FALSE,
       enable_converters |-> FALSE, reverse_join |-> TRUE,
       converters |-> BothConverters],
    inputs |-> {"", " \n", "file://x", "ab", "a", "b", "c"}]}

-----------------------------------------------------------------------------
(* Steps. *)

\* The record of an operation of process p, taken before it runs.
Call(op, p, text, index, num) ==
  [op |-> op, proc |-> p, text |-> text, index |-> index, num |-> num,
   code |-> 0, ans |-> "", before |-> items[p], fileBefore |-> file,
   clipBefore |-> clipboard, raised |-> FALSE]

NoCall ==
  [op |-> "none", proc |-> "none", text |-> "", index |-> 0, num |-> 0,
   code |-> 0, ans |-> "", before |-> <<>>, fileBefore |-> <<>>,
   clipBefore |-> "", raised |-> FALSE]

\* Process p's store becomes st; call is the operation that did it.
Becomes(p, st, call) ==
  /\ items' = [items EXCEPT ![p] = st.items]
  /\ file' = st.file
  /\ clipboard' = st.clipboard
  /\ last' = [call EXCEPT !.raised = st.raised]

\* The clock advances.
Tick ==
  /\ now < MaxTime
  /\ now' = now + 1
  /\ UNCHANGED <<Settings, inputs, file, fstate, items, clipboard, todo, mpc,
                 selected, wpc, iterations, streak, last>>

-----------------------------------------------------------------------------
(* The store operations, called one after another by one process. *)

\* The process whose store the operations are applied to.
Caller == "menu"

ApiFrame ==
  UNCHANGED <<Settings, inputs, fstate, todo, now, mpc, selected, wpc,
              iterations, streak>>

ApiAdd(text, page) ==
  /\ Becomes(Caller, add(StoreOf(Caller), text, page),
             Call("add", Caller, text, 0, 0))
  /\ ApiFrame

ApiInsert(text, page) ==
  /\ Becomes(Caller, insert(StoreOf(Caller), text, page),
             Call("insert", Caller, text, 0, 0))
  /\ ApiFrame

ApiDelete(index) ==
  /\ Becomes(Caller, delete(StoreOf(Caller), index),
             Call("delete", Caller, "", index, 0))
  /\ ApiFrame

ApiDeleteAll ==
  /\ Becomes(Caller, delete_all(StoreOf(Caller)),
             Call("delete_all", Caller, "", 0, 0))
  /\ ApiFrame

ApiJoin(index, num, page) ==
  /\ Becomes(Caller, join(StoreOf(Caller), index, num, page),
             Call("join", Caller, "", index, num))
  /\ ApiFrame

StoreInit ==
  /\ \E sc \in StoreScenarios : Settings = sc.settings /\ inputs = sc.inputs
  /\ file = <<>>
  /\ fstate = "whole"
  /\ items = [p \in Procs |-> <<>>]
  /\ clipboard = ""
  /\ todo = [p \in Procs |-> Idle]
  /\ now = 0
  /\ mpc = "idle"
  /\ selected = 0
  /\ wpc = "idle"
  /\ iterations = 0
  /\ streak = 0
  /\ last = NoCall

StoreNext ==
  \/ Tick
  \/ \E text \in inputs : \E page \in PagesFor(text) : ApiAdd(text, page)
  \/ \E text \in inputs : \E page \in PagesFor(convert(text)) \cup PagesFor(text) :
       ApiInsert(text, page)
  \/ \E index \in 0..(Len(items[Caller]) - 1) : ApiDelete(index)
  \/ ApiDeleteAll
  \/ \E index \in 0..(Len(items[Caller]) - 1), num \in 2..MaxJoin :
       \E page \in PagesFor(join_text(items[Caller], index, num)) :
         ApiJoin(index, num, page)

\* The store under any sequence of its operations.
SpecStore == StoreInit /\ [][StoreNext]_vars

-----------------------------------------------------------------------------
(* The menu process: main in mode "show", Rofi.show, Items.confirm_delete. *)

\* The exit statuses Rofi can return with a row chosen: 0 for Enter, 10 to
\* 19 for Alt+1 .. Alt+0, 20 for a key the dispatcher has no branch for.
Codes == {0} \cup (10..20)

\* The answers of the "Delete all items?" prompt; "" when it is dismissed.
ConfirmAnswers == {"No", "Yes", ""}

\* Items.read: the list of the file replaces Items.items (an empty file
\* reads as "[]"); json.loads raises on a text that does not parse.
read(st) ==
  IF fstate = "garbled" THEN [st EXCEPT !.raised = TRUE]
                        ELSE [st EXCEPT !.items = loads(st.file)]

\* The history a scenario starts from: the texts the watcher inserted, in
\* order, before the menu is opened.
RECURSIVE Build(_, _)
Build(st, texts) ==
  IF texts = <<>> THEN st
  ELSE Build(insert(st, Head(texts), NoTitle), Tail(texts))

EmptyStore ==
  [items |-> <<>>, file |-> <<>>, clipboard |-> "", raised |-> FALSE, log |-> <<>>]

\* settings.json and the history the menu is opened on: five short items
\* where every join is a heavy paste, a store with a URL, and a store that
\* joins in reverse.
MenuScenarios ==
  {[settings |->
      [max_items |-> 5, heavy_paste |-> 1, enable_titles |-> TRUE,
       enable_converters |-> TRUE, reverse_join |-> FALSE,
       converters |-> BothConverters],
    history |-> <<"a", "b", "c", "d", "e">>],
   [settings |->
      [max_items |-> 3, heavy_paste |-> 40, enable_titles |-> TRUE,
       enable_converters |-> TRUE, reverse_join |-> FALSE,
       converters |-> BothConverters],
    history |-> <<"https://youtu.be/x", "a">>],
   [settings |->
      [max_items |-> 3, heavy_paste |-> 5, enable_titles |-> FALSE,
       enable_converters |-> FALSE, reverse_join |-> TRUE,
       converters |-> BothConverters],
    history |-> <<"a", "b", "c">>]}

MenuFrame ==
  UNCHANGED <<Settings, inputs, fstate, todo, now, wpc, iterations, streak>>

\* main, mode "show": Items.read(), then Rofi.show().
MenuLaunch ==
  /\ mpc = "idle"
  /\ Becomes("menu", read(StoreOf("menu")), Call("main", "menu", "", 0, 0))
  /\ mpc' = IF read(StoreOf("menu")).raised THEN "crashed" ELSE "displaying"
  /\ selected' = 0
  /\ MenuFrame

\* Rofi.show: the prompt is dismissed, ans is empty.
ShowCancel ==
  /\ mpc = "displaying"
  /\ Becomes("menu", StoreOf("menu"),
       [Call("show", "menu", "", 0, 0) EXCEPT !.code = 1])
  /\ mpc' = "done"
  /\ UNCHANGED selected
  /\ MenuFrame

\* Rofi.show, the branches on proc.returncode: what the store becomes.
dispatch(st, code, index, page) ==
  IF code = 10 THEN delete(st, index)
  ELSE IF code >= 11 /\ code <= 18 THEN join(st, index, code - 9, page)
  ELSE IF code = 19 THEN st
  ELSE select(st, index)

\* Rofi.show, the branches on proc.returncode: what the process does next.
\* An exception that nothing catches ends the process.
next_pc(st, code) ==
  IF st.raised THEN "crashed"
  ELSE IF code = 10 \/ (code >= 11 /\ code <= 18) THEN "displaying"
  ELSE IF code = 19 THEN "confirming"
  ELSE "done"

\* A dispatcher that always shows the menu again from the top.
next_selected_Top(code, index) == 0

\* Rofi.show: the argument of the Rofi.show that follows.
next_selected(code, index) == IF code = 10 THEN index ELSE 0

\* Rofi.show: the user chose the row index and Rofi returned code.
Show(code, index, page) ==
  /\ mpc = "displaying"
  /\ LET st == dispatch(StoreOf("menu"), code, index, page) IN
       /\ Becomes("menu", st,
            [Call("show", "menu", "", index, 0) EXCEPT !.code = code, !.ans = "row"])
       /\ mpc' = next_pc(st, code)
       /\ selected' = IF next_pc(st, code) = "displaying"
                        THEN next_selected(code, index) ELSE selected
  /\ MenuFrame

\* A prompt whose answer is not looked at.
confirm_delete_Always(st, ans) == delete_all(st)

\* Items.confirm_delete: the prompt returned ans.
confirm_delete(st, ans) == IF ans = "Yes" THEN delete_all(st) ELSE st

\* Items.confirm_delete returns to Rofi.show, which returns to main.
Confirm(ans) ==
  /\ mpc = "confirming"
  /\ Becomes("menu", confirm_delete(StoreOf("menu"), ans),
       [Call("confirm_delete", "menu", "", 0, 0) EXCEPT !.ans = ans])
  /\ mpc' = "done"
  /\ UNCHANGED selected
  /\ MenuFrame

MenuInit ==
  /\ \E sc \in MenuScenarios :
       /\ Settings = sc.settings
       /\ now = 0
       /\ file = Build(EmptyStore, sc.history).file
       /\ inputs = {sc.history[i] : i \in 1..Len(sc.history)}
  /\ fstate = "whole"
  /\ items = [p \in Procs |-> <<>>]
  /\ clipboard = ""
  /\ todo = [p \in Procs |-> Idle]
  /\ mpc = "idle"
  /\ selected = 0
  /\ wpc = "idle"
  /\ iterations = 0
  /\ streak = 0
  /\ last = NoCall

MenuNext ==
  \/ Tick
  \/ MenuLaunch
  \/ ShowCancel
  \/ \E code \in Codes, index \in 0..(Len(items["menu"]) - 1) :
       \E page \in IF code \in 11..18
                     THEN PagesFor(join_text(items["menu"], index, code - 9))
                     ELSE {NoTitle} :
         Show(code, index, page)
  \/ \E ans \in ConfirmAnswers : Confirm(ans)

\* One run of the menu process on the file a history left.
SpecMenu == MenuInit /\ [][MenuNext]_vars

-----------------------------------------------------------------------------
(* The watcher process: main in mode "watcher", Watcher.start. *)

\* Watcher.start: max_iterations
max_iterations == 100

\* A cap that is reached one iteration early.
TooMany_Early(n) == n >= max_iterations

\* Watcher.start:  if iterations > max_iterations
TooMany(n) == n > max_iterations

\* What the two subprocesses of an iteration can do: copyevent returns
\* non-zero; xclip returns non-zero; xclip times out, which raises; xclip
\* prints the clipboard.
Outcomes == {"notifier_failed", "read_failed", "read_raised", "clip"}

\* Watcher.start, the loop body after the cap test: what the store becomes.
\* An exception leaves the store as the statement that raised found it.
watch(st, outcome, clip, page) ==
  IF outcome = "read_raised" THEN [st EXCEPT !.raised = TRUE]
  ELSE IF outcome = "clip" /\ clip # "" THEN insert(read(st), clip, page)
  ELSE st

\* A loop that sets the counter to 0 at the end of every iteration.
counted_Reset(st, n, outcome, clip) == 0

\* Watcher.start, the loop body: the value of iterations after it, n being
\* the value after the increment.  iterations = 0 is the statement after
\* Items.insert, which an exception skips.
counted(st, n, outcome, clip) ==
  IF outcome = "clip" /\ clip # "" /\ ~st.raised THEN 0 ELSE n

\* A handler that logs the exception and raises it again.
on_exception_Reraise(st) == IF st.raised THEN "crashed" ELSE "running"

\* Watcher.start, the except clause: the exception is logged, and the while
\* loop goes on, as it does after an iteration that raised nothing.
on_exception(st) == "running"

WatcherFrame == UNCHANGED <<Settings, inputs, fstate, todo, now, mpc, selected>>

\* main, mode "watcher": Watcher.start up to the loop.
WatcherStart ==
  /\ wpc = "idle"
  /\ wpc' = "running"
  /\ iterations' = 0
  /\ streak' = 0
  /\ last' = Call("main", "watcher", "", 0, 0)
  /\ UNCHANGED <<file, items, clipboard>>
  /\ WatcherFrame

\* Watcher.start, an iteration that finds the cap exceeded: exit(1).
WatcherExit ==
  /\ wpc = "running"
  /\ TooMany(iterations + 1)
  /\ wpc' = "exit(1)"
  /\ iterations' = iterations + 1
  /\ streak' = streak + 1
  /\ last' = Call("exit", "watcher", "", 0, 0)
  /\ UNCHANGED <<file, items, clipboard>>
  /\ WatcherFrame

\* Watcher.start, one iteration of the loop below the cap.  The except
\* clause logs an exception and the loop goes on.
WatcherIteration(outcome, clip, page) ==
  /\ wpc = "running"
  /\ ~TooMany(iterations + 1)
  /\ LET st == watch(StoreOf("watcher"), outcome, clip, page) IN
       /\ Becomes("watcher", st,
            [Call("iteration", "watcher", clip, 0, 0) EXCEPT !.ans = outcome])
       /\ iterations' = counted(st, iterations + 1, outcome, clip)
       /\ streak' = IF outcome = "clip" /\ clip # "" /\ ~st.raised
                      THEN 0 ELSE Min(streak + 1, max_iterations + 2)
       /\ wpc' = on_exception(st)
  /\ WatcherFrame

\* settings.json and the texts copied while the watcher runs.
WatcherScenarios ==
  {[settings |->
      [max_items |-> 2, heavy_paste |-> 40, enable_titles |-> TRUE,
       enable_converters |-> TRUE, reverse_join |-> FALSE,
       converters |-> BothConverters],
    inputs |-> {"", "a", "file://x", "https://youtu.be/x"}]}

\* The watcher starts on an items file that parses, or on one that does not
\* (what a write that did not finish, or two writes at once, leave behind).
WatcherInit ==
  /\ \E sc \in WatcherScenarios : Settings = sc.settings /\ inputs = sc.inputs
  /\ file = <<>>
  /\ fstate \in {"whole", "garbled"}
  /\ items = [p \in Procs |-> <<>>]
  /\ clipboard = ""
  /\ todo = [p \in Procs |-> Idle]
  /\ now = 0
  /\ mpc = "idle"
  /\ selected = 0
  /\ wpc = "idle"
  /\ iterations = 0
  /\ streak = 0
  /\ last = NoCall

WatcherNext ==
  \/ Tick
  \/ WatcherStart
  \/ WatcherExit
  \/ \E outcome \in Outcomes \ {"clip"} : WatcherIteration(outcome, "", NoTitle)
  \/ \E clip \in inputs : \E page \in PagesFor(convert(clip)) \cup PagesFor(clip) :
       WatcherIteration("clip", clip, page)

\* The watcher process alone.
SpecWatcher == WatcherInit /\ [][WatcherNext]_vars

\* A step of the watcher process: it is started, or its loop takes one more
\* turn.
WatcherStep ==
  \/ WatcherStart
  \/ WatcherExit
  \/ \E outcome \in Outcomes \ {"clip"} : WatcherIteration(outcome, "", NoTitle)
  \/ \E clip \in inputs : \E page \in PagesFor(convert(clip)) \cup PagesFor(clip) :
       WatcherIteration("clip", clip, page)

\* The watcher process when copyevent keeps returning: while True has no way
\* out but exit(1), so the loop takes a turn whenever one is possible.
SpecWatcherLive == SpecWatcher /\ WF_vars(WatcherStep)

-----------------------------------------------------------------------------
(* The menu process and the watcher process side by side.  What a process  *)
(* does to its own Items.items is seen by no other process, so an operation *)
(* is one step up to its first write; each Files.write is then two steps,  *)
(* open and close, and each Utils.copy_text one.                           *)

\* str(n): the number of digits of a non-negative integer.
RECURSIVE digits(_)
digits(n) == IF n < 10 THEN 1 ELSE 1 + digits(n \div 10)

\* The number of characters json.dumps writes for a string, the quotes
\* aside: a line break or a tab is written as two.
escaped_len(text) ==
  Len(text) + Cardinality({i \in 1..Len(text) : CharAt(text, i) \in {"\n", "\t"}})

\* The number of characters json.dumps(..., indent = 2) writes for the
\* objects of an array, line breaks and commas included.
RECURSIVE objects_len(_)
objects_len(content) ==
  IF content = <<>> THEN 0
  ELSE 74 + escaped_len(Head(content).text) + digits(Head(content).date)
          + digits(Head(content).num_lines) + escaped_len(Head(content).title)
          + objects_len(Tail(content))

\* len(json.dumps(content, indent = 2)); the empty array is "[]".
dumps_len(content) == 2 + objects_len(content)

\* The number of characters items.json holds; of a garbled file, file is
\* the longer array, whose end is still there.
file_len == IF fstate = "truncated" THEN 0 ELSE dumps_len(file)

\* sys.argv[1:], as the program is started with.
Argvs == {<<>>, <<"show">>, <<"watcher">>, <<"list">>}

\* A main that reads no argument.
mode_Default(argv) == "show"

\* main: mode is "show" unless there is a first argument.
mode(argv) == IF Len(argv) > 0 THEN argv[1] ELSE "show"

\* The state of process p.
PcOf(p) == IF p = "menu" THEN mpc ELSE wpc

\* Process p enters an operation that takes its store to st, with the writes
\* and copies of st.log still to make, and that leaves p in state then.
Begins(p, st, then, text) ==
  /\ items' = [items EXCEPT ![p] = st.items]
  /\ todo' = [todo EXCEPT ![p] =
       IF st.log = <<>> THEN Idle
       ELSE [log |-> st.log, opened |-> FALSE, raised |-> st.raised,
             text |-> text, then |-> then]]
  /\ UNCHANGED <<file, fstate, clipboard>>

\* The operation of process p has rest still to do.  With nothing left it
\* returns: the menu to where the dispatcher goes next, the watcher to the
\* end of its iteration.
Proceeds(p, rest) ==
  /\ todo' = [todo EXCEPT ![p] =
       IF rest = <<>> THEN Idle ELSE [@ EXCEPT !.log = rest, !.opened = FALSE]]
  /\ IF rest # <<>> THEN UNCHANGED <<mpc, wpc, iterations, streak>>
     ELSE IF p = "menu"
       THEN mpc' = todo[p].then /\ UNCHANGED <<wpc, iterations, streak>>
       ELSE /\ wpc' = todo[p].then
            /\ iterations' = counted(todo[p], iterations, "clip", todo[p].text)
            /\ streak' = IF todo[p].raised THEN streak ELSE 0
            /\ UNCHANGED mpc

\* main; the step records the first argument and the number of arguments.
Main(argv) ==
  LET call(p) == Call("main", p, IF Len(argv) > 0 THEN argv[1] ELSE "", 0,
                      Len(argv)) IN
  \/ /\ mode(argv) = "watcher"
     /\ wpc = "idle"
     /\ wpc' = "running"
     /\ iterations' = 0
     /\ streak' = 0
     /\ last' = call("watcher")
     /\ UNCHANGED <<Settings, inputs, file, fstate, items, clipboard, todo, now,
                    mpc, selected>>
  \/ /\ mode(argv) = "show"
     /\ mpc = "idle"
     /\ LET st == read(StoreOf("menu")) IN
          /\ items' = [items EXCEPT !["menu"] = st.items]
          /\ mpc' = IF st.raised THEN "crashed" ELSE "displaying"
          /\ last' = [call("menu") EXCEPT !.raised = st.raised]
     /\ selected' = 0
     /\ UNCHANGED <<Settings, inputs, file, fstate, clipboard, todo, now, wpc,
                    iterations, streak>>
  \/ /\ mode(argv) \notin {"watcher", "show"}
     /\ mpc = "idle"
     /\ mpc' = "done"
     /\ last' = call("menu")
     /\ UNCHANGED <<Settings, inputs, file, fstate, items, clipboard, todo, now,
                    selected, wpc, iterations, streak>>

\* Rofi.show: the user chose the row index and Rofi returned code.
BothShow(code, index, page) ==
  /\ mpc = "displaying"
  /\ LET st == dispatch(StoreOf("menu"), code, index, page)
         then == next_pc(st, code)
     IN /\ Begins("menu", st, then, "")
        /\ mpc' = IF st.log = <<>> THEN then ELSE "busy"
        /\ selected' = IF then = "displaying" THEN next_selected(code, index)
                                              ELSE selected
        /\ last' = [Call("show", "menu", "", index, 0) EXCEPT
                      !.code = code, !.ans = "row", !.raised = st.raised]
  /\ UNCHANGED <<Settings, inputs, now, wpc, iterations, streak>>

\* Items.confirm_delete: the prompt returned ans.
BothConfirm(ans) ==
  /\ mpc = "confirming"
  /\ LET st == confirm_delete(StoreOf("menu"), ans)
     IN /\ Begins("menu", st, "done", "")
        /\ mpc' = IF st.log = <<>> THEN "done" ELSE "busy"
        /\ last' = [Call("confirm_delete", "menu", "", 0, 0) EXCEPT !.ans = ans]
  /\ UNCHANGED <<Settings, inputs, now, selected, wpc, iterations, streak>>

\* Watcher.start, an iteration below the cap in which copyevent and xclip
\* succeed and xclip prints clip: up to the first write of Items.insert.
BothIteration(clip, page) ==
  /\ wpc = "running"
  /\ iterations < MaxFailed
  /\ ~TooMany(iterations + 1)
  /\ LET st == watch(StoreOf("watcher"), "clip", clip, page)
         then == on_exception(st)
     IN /\ Begins("watcher", st, then, clip)
        /\ wpc' = IF st.log = <<>> THEN then ELSE "busy"
        /\ iterations' = IF st.log = <<>>
                           THEN counted(st, iterations + 1, "clip", clip)
                           ELSE iterations + 1
        /\ streak' = IF st.log = <<>> /\ clip # "" /\ ~st.raised
                       THEN 0 ELSE streak + 1
        /\ last' = [Call("iteration", "watcher", clip, 0, 0) EXCEPT
                      !.ans = "clip", !.raised = st.raised]
  /\ UNCHANGED <<Settings, inputs, now, mpc, selected>>

\* Files.write, open(path, "w"): the file is emptied.
FilesWriteOpen(p) ==
  /\ PcOf(p) = "busy"
  /\ todo[p].log # <<>>
  /\ Head(todo[p].log).do = "write"
  /\ ~todo[p].opened
  /\ file' = <<>>
  /\ fstate' = "truncated"
  /\ todo' = [todo EXCEPT ![p].opened = TRUE]
  /\ last' = Call("open", p, "", 0, 0)
  /\ UNCHANGED <<Settings, inputs, items, clipboard, now, mpc, selected, wpc,
                 iterations, streak>>

\* Files.write, file.write(content) and file.close(): the content goes to
\* the start of the file, that of this open being 0.  Over text another
\* process wrote since the open, and that is longer, it leaves that text's
\* end behind it.
FilesWriteClose(p) ==
  /\ PcOf(p) = "busy"
  /\ todo[p].opened
  /\ LET content == Head(todo[p].log).content IN
       /\ IF dumps_len(content) >= file_len
            THEN file' = content /\ fstate' = "whole"
            ELSE fstate' = "garbled" /\ UNCHANGED file
       /\ last' = [Call("close", p, "", 0, 0) EXCEPT !.before = content]
  /\ Proceeds(p, Tail(todo[p].log))
  /\ UNCHANGED <<Settings, inputs, items, clipboard, now, selected>>

\* Utils.copy_text
CopyText(p) ==
  /\ PcOf(p) = "busy"
  /\ todo[p].log # <<>>
  /\ Head(todo[p].log).do = "copy"
  /\ clipboard' = Head(todo[p].log).content
  /\ last' = Call("copy", p, Head(todo[p].log).content, 0, 0)
  /\ Proceeds(p, Tail(todo[p].log))
  /\ UNCHANGED <<Settings, inputs, file, fstate, items, now, selected>>

\* The keys the user presses while the watcher runs: Enter, Alt+1, Alt+2
\* and Alt+0.
BothCodes == {0, 10, 11, 19}

\* settings.json, the history the menu is opened on and the texts copied
\* while it is open.
BothScenarios ==
  {[settings |->
      [max_items |-> 3, heavy_paste |-> 3, enable_titles |-> FALSE,
       enable_converters |-> FALSE, reverse_join |-> FALSE,
       converters |-> BothConverters],
    history |-> <<"a", "b">>,
    inputs |-> {"c"}]}

BothInit ==
  /\ \E sc \in BothScenarios :
       /\ Settings = sc.settings
       /\ now = 0
       /\ file = Build(EmptyStore, sc.history).file
       /\ inputs = sc.inputs
  /\ fstate = "whole"
  /\ items = [p \in Procs |-> <<>>]
  /\ clipboard = ""
  /\ todo = [p \in Procs |-> Idle]
  /\ mpc = "idle"
  /\ selected = 0
  /\ wpc = "idle"
  /\ iterations = 0
  /\ streak = 0
  /\ last = NoCall

BothNext ==
  \/ \E argv \in Argvs : Main(argv)
  \/ ShowCancel
  \/ \E code \in BothCodes, index \in 0..(Len(items["menu"]) - 1) :
       \E page \in IF code \in 11..18
                     THEN PagesFor(join_text(items["menu"], index, code - 9))
                     ELSE {NoTitle} :
         BothShow(code, index, page)
  \/ \E ans \in ConfirmAnswers : BothConfirm(ans)
  \/ \E clip \in inputs : \E page \in PagesFor(convert(clip)) \cup PagesFor(clip) :
       BothIteration(clip, page)
  \/ \E p \in Procs : FilesWriteOpen(p)
  \/ \E p \in Procs : FilesWriteClose(p)
  \/ \E p \in Procs : CopyText(p)

\* The menu and the watcher, started in any order, on the same items file.
SpecBoth == BothInit /\ [][BothNext]_vars

-----------------------------------------------------------------------------
(* The converters on their own: Converters.convert applied to one text     *)
(* after another, under each setting of the two rules.                     *)

\* The video ids and the seconds of the URLs that are converted.
VideoIds == {"x", "abc123", "a-b", "_Q9", "dQw4w9WgXcQ"}

Seconds == {"0", "5", "30", "3600"}

\* The texts that are converted: youtu.be URLs without and with a
\* timestamp, music.youtube.com URLs, and texts no rule is meant for.
ConvertInputs ==
  {"https://youtu.be/" \o id : id \in VideoIds}
  \cup {"https://youtu.be/" \o id \o "?t=" \o sec : id \in VideoIds, sec \in Seconds}
  \cup {"https://music.youtube.com/watch?v=x",
        "https://music.youtube.com/playlist?list=PL_1",
        "https://music.youtube.com/browse", "https://youtu.be/",
        "https://www.youtube.com/watch?v=x", "https://youtu.be/x y",
        "see https://youtu.be/x", "file://https://youtu.be/x", ""}

\* settings.json: each of the two rules on and off.
ConvertScenarios ==
  {[max_items |-> 2, heavy_paste |-> 60, enable_titles |-> FALSE,
    enable_converters |-> TRUE, reverse_join |-> FALSE,
    converters |-> [youtu_be |-> a, youtube_music |-> b]] :
     a \in BOOLEAN, b \in BOOLEAN}

\* Items.insert:  converted = Converters.convert(text)
Convert(text) ==
  /\ last' = [Call("convert", "watcher", text, 0, 0) EXCEPT !.ans = convert(text)]
  /\ UNCHANGED <<Settings, inputs, file, fstate, items, clipboard, todo, now,
                 mpc, selected, wpc, iterations, streak>>

ConvertInit ==
  /\ Settings \in ConvertScenarios
  /\ inputs = ConvertInputs
  /\ file = <<>>
  /\ fstate = "whole"
  /\ items = [p \in Procs |-> <<>>]
  /\ clipboard = ""
  /\ todo = [p \in Procs |-> Idle]
  /\ now = 0
  /\ mpc = "idle"
  /\ selected = 0
  /\ wpc = "idle"
  /\ iterations = 0
  /\ streak = 0
  /\ last = NoCall

ConvertNext == \E text \in inputs : Convert(text)

SpecConvert == ConvertInit /\ [][ConvertNext]_vars

-----------------------------------------------------------------------------
(* The store: claims C1 to C5, under SpecStore. *)

\* The texts of a list of items, in order.
TextsOf(its) == [i \in 1..Len(its) |-> its[i].text]

\* No two items of the list have the same text.
Unique(its) ==
  \A i, j \in 1..Len(its) : i # j => its[i].text # its[j].text

\* The argument of the last add or insert, right-trimmed.
LastText == rstrip(last.text)

\* The positions (1-based) of the text in the list.
Positions(its, text) == {i \in 1..Len(its) : its[i].text = text}

\* C1: whatever operations ran, the items of a process and the items of the
\* file never hold the same text twice.
C1_Uniqueness ==
  /\ \A p \in Procs : Unique(items[p])
  /\ Unique(file)

\* C1's case: a join whose merged text was already the text of another item
\* of the store, and an add of a text that is already there.
C1_Witness ==
  /\ last.op = "join"
  /\ ~last.raised
  /\ \E i \in 1..Len(last.before) :
       /\ (i <= last.index \/ i > last.index + last.num)
       /\ last.before[i].text = items[Caller][1].text

\* C2: the store never holds more than max_items items, and an add of a new
\* text to a full store puts the new item first, followed by the items that
\* were there, in their order, without the last ones.
C2_Capacity ==
  /\ Len(items[Caller]) <= Settings.max_items
  /\ ( /\ last.op = "add"
       /\ Positions(last.before, LastText) = {}
       /\ items[Caller] # last.before
       /\ Len(last.before) = Settings.max_items )
     => /\ Len(items[Caller]) = Settings.max_items
        /\ items[Caller][1].text = LastText
        /\ \A k \in 2..Settings.max_items : items[Caller][k] = last.before[k - 1]

\* C2's case: max_items = 2, and after a and b the text c is added.
C2_Witness ==
  /\ Settings.max_items = 2
  /\ last.op = "add"
  /\ last.text = "c"
  /\ TextsOf(last.before) = <<"b", "a">>
  /\ TextsOf(items[Caller]) = <<"c", "b">>

\* C3: an add of a text that an item at position i already has leaves that
\* item, date and title included, at the front, the items that were before
\* it one place further, and the items after it where they were.
C3_RecencyWithoutRefresh ==
  (last.op = "add" /\ Positions(last.before, LastText) # {})
  => \E i \in Positions(last.before, LastText) :
       /\ ~last.raised
       /\ Len(items[Caller]) = Len(last.before)
       /\ items[Caller][1] = last.before[i]
       /\ \A k \in 1..Len(last.before) :
            /\ k < i => items[Caller][k + 1] = last.before[k]
            /\ k > i => items[Caller][k] = last.before[k]

\* C3's case: the text, with trailing whitespace, is that of the last of
\* three items, which was created at an earlier time.
C3_Witness ==
  /\ last.op = "add"
  /\ last.text # LastText
  /\ Len(last.before) = 3
  /\ last.before[3].text = LastText
  /\ last.before[3].date < now
  /\ items[Caller][1] = last.before[3]

\* C4 as claimed: an add or an insert of a text that, right-trimmed, is
\* empty, starts with file:// or is longer than heavy_paste changes neither
\* the items nor the file, and raises nothing.
C4_RejectedIsNoOp ==
  ( /\ last.op \in {"add", "insert"}
    /\ \/ LastText = ""
       \/ startswith(LastText, "file://")
       \/ Len(LastText) > Settings.heavy_paste )
  => /\ items[Caller] = last.before
     /\ file = last.fileBefore
     /\ ~last.raised

\* The n items a join takes, for a slice that lies within the list.
JoinSources == SubSeq(last.before, last.index + 1, last.index + last.num)

\* The merged text as C5 states it: the trimmed texts, in their order, with
\* one space between two.
RECURSIVE SpaceJoined(_)
SpaceJoined(texts) ==
  IF Len(texts) = 1 THEN strip(texts[1])
  ELSE strip(texts[1]) \o " " \o SpaceJoined(Tail(texts))

\* C5 as claimed: a join of n items (2 <= n <= 9, the slice within the list,
\* reverse_join off) leaves one item with the merged text, none of the n
\* source items, every other item, and the merged text on the clipboard.
C5_JoinResult ==
  ( /\ last.op = "join"
    /\ ~Settings.reverse_join
    /\ last.num \in 2..9
    /\ last.index + last.num <= Len(last.before) )
  => LET merged == SpaceJoined(TextsOf(JoinSources)) IN
     /\ Cardinality(Positions(items[Caller], merged)) = 1
     /\ \A i \in 1..Len(last.before) :
          IF i > last.index /\ i <= last.index + last.num
            THEN Positions(items[Caller], last.before[i].text) = {}
            ELSE Positions(items[Caller], last.before[i].text) # {}
     /\ clipboard = merged

-----------------------------------------------------------------------------
(* The dispatcher: claims C6 to C9, under SpecMenu. *)

\* The last step was Rofi.show returning with a row chosen.
Chose == last.op = "show" /\ last.ans # ""

\* C6 as claimed: after the yes/no prompt the items are deleted only on Yes,
\* and the menu is shown again from the top.
C6_ClearRedisplays ==
  last.op = "confirm_delete"
  => /\ IF last.ans = "Yes"
          THEN items["menu"] = <<>> /\ file = <<>>
          ELSE items["menu"] = last.before /\ file = last.fileBefore
     /\ mpc = "displaying"
     /\ selected = 0

\* C6 as amended: status 19 leads to the yes/no prompt without touching the
\* store; after the prompt the items are deleted only on Yes, and the
\* dispatcher is finished: the menu is not shown again.
C6_ClearThenDone ==
  /\ (Chose /\ last.code = 19)
     => /\ mpc = "confirming"
        /\ items["menu"] = last.before
        /\ file = last.fileBefore
  /\ last.op = "confirm_delete"
     => /\ IF last.ans = "Yes"
             THEN items["menu"] = <<>> /\ file = <<>>
             ELSE items["menu"] = last.before /\ file = last.fileBefore
        /\ mpc = "done"

\* C6's case: the prompt was answered Yes on a store that held items.
C6_Witness ==
  /\ last.op = "confirm_delete"
  /\ last.ans = "Yes"
  /\ last.before # <<>>
  /\ items["menu"] = <<>>
  /\ mpc = "done"

\* C7: status 10 with index i removes the item at i and no other, from the
\* list and from the file, and shows the menu again with the cursor at i.
C7_DeleteRedisplays ==
  (Chose /\ last.code = 10)
  => /\ Len(items["menu"]) = Len(last.before) - 1
     /\ \A k \in 1..Len(last.before) :
          /\ k < last.index + 1 => items["menu"][k] = last.before[k]
          /\ k > last.index + 1 => items["menu"][k - 1] = last.before[k]
     /\ file = items["menu"]
     /\ mpc = "displaying"
     /\ selected = last.index

\* C7's case: status 10, index 2, on a store of five items.
C7_Witness ==
  /\ Chose
  /\ last.code = 10
  /\ last.index = 2
  /\ Len(last.before) = 5
  /\ Len(items["menu"]) = 4
  /\ selected = 2

\* The text that Join(index, n, reverse) merges, as C8 states it.
ClaimedJoinText(its, index, n, reverse) ==
  LET src == SubSeq(its, index + 1, Min(index + n, Len(its)))
  IN SpaceJoined(TextsOf(IF reverse THEN Reverse(src) ELSE src))

\* C8 as claimed: on a status c in 11..18, and on no other, the dispatcher
\* joins c - 9 items from the cursor on, copies the merged text out and shows
\* the menu again from the top.
C8_JoinRedisplays ==
  Chose
  => IF last.code \in 11..18
       THEN /\ clipboard = ClaimedJoinText(last.before, last.index,
                                           last.code - 9, Settings.reverse_join)
            /\ file = items["menu"]
            /\ mpc = "displaying"
            /\ selected = 0
       ELSE \/ last.code = 10
            \/ items["menu"] = last.before /\ file = last.fileBefore

\* C9: a dismissed menu changes nothing at all; an accepted row copies the
\* text of that row out; either way the list and the file are as they were
\* and the dispatcher is finished.
C9_AcceptAndCancel ==
  /\ (last.op = "show" /\ last.ans = "")
     => /\ clipboard = last.clipBefore
        /\ items["menu"] = last.before
        /\ file = last.fileBefore
        /\ mpc = "done"
  /\ (Chose /\ last.code \notin 10..19)
     => /\ clipboard = last.before[last.index + 1].text
        /\ items["menu"] = last.before
        /\ file = last.fileBefore
        /\ mpc = "done"

\* C9's case: Enter on the second row, after an earlier copy of another row.
C9_Witness ==
  /\ Chose
  /\ last.code = 0
  /\ last.index = 1
  /\ clipboard = last.before[2].text
  /\ clipboard # last.clipBefore
  /\ mpc = "done"

-----------------------------------------------------------------------------
(* The watcher's counter: claim C10, under SpecWatcher. *)

\* The last step was an iteration that read a non-empty text and inserted it
\* without an exception.
Inserted ==
  /\ last.op = "iteration"
  /\ last.ans = "clip"
  /\ last.text # ""
  /\ ~last.raised

\* C10: an iteration that reads a non-empty text and completes the insertion
\* leaves the counter at 0, and the watcher has exited with status 1 only
\* when more than 100 iterations in a row were begun without such an
\* insertion.
C10_WatcherCounter ==
  /\ Inserted => iterations = 0
  /\ wpc = "exit(1)" => streak > 100

\* C10's case: the watcher exits in the 101st iteration after an insertion.
C10_Witness ==
  /\ wpc = "exit(1)"
  /\ streak = 101
  /\ Len(items["watcher"]) > 0

-----------------------------------------------------------------------------
(* Failures inside the store: claim C11, under SpecStore. *)

\* The text is one Utils.get_title resolves a title for: a bare https:// URL.
Qualifies(text) == startswith(text, "https://") /\ ~space(text)

\* C11 as claimed: with titles enabled, an add of a new text that qualifies
\* for title resolution always puts the item at index 0 and persists the
\* store, whatever the title resolver does; nothing is raised out of the add.
C11_TitleFailureContained ==
  ( /\ last.op = "add"
    /\ Settings.enable_titles
    /\ Qualifies(LastText)
    /\ ~AddRejects(LastText)
    /\ Positions(last.before, LastText) = {} )
  => /\ ~last.raised
     /\ items[Caller] # <<>>
     /\ items[Caller][1].text = LastText
     /\ file = items[Caller]

-----------------------------------------------------------------------------
(* Failures inside the watcher: claim C12, under SpecWatcher. *)

\* C12: after an iteration, whatever failed in it (copyevent, xclip, the
\* reload of the store, the insertion), the watcher is still running; it
\* stops running only by its own exit(1), taken when the counter is over the
\* cap.
C12_FaultContainment ==
  /\ last.op = "iteration" => wpc = "running"
  /\ wpc \in {"idle", "running", "exit(1)"}
  /\ wpc = "exit(1)" => last.op = "exit" /\ iterations > max_iterations

\* C12's case: the third iteration in a row in which the reload of the store
\* or the insertion raised, and the loop is still going.
C12_Witness ==
  /\ last.op = "iteration"
  /\ last.ans = "clip"
  /\ last.raised
  /\ iterations = 3
  /\ wpc = "running"

-----------------------------------------------------------------------------
(* What the store holds: claims C13 and C14, under SpecStore. *)

\* The text is one the store may hold.
WellFormed(text) ==
  /\ text # ""
  /\ rstrip(text) = text
  /\ ~startswith(text, "file://")
  /\ Len(text) <= Settings.heavy_paste

\* C13: starting from the empty store, whatever adds, inserts and joins ran,
\* the text of every item, in the list and in the file, is non-empty, has no
\* trailing whitespace, does not start with file:// and is not longer than
\* heavy_paste.
C13_TextConstraints ==
  /\ \A i \in 1..Len(items[Caller]) : WellFormed(items[Caller][i].text)
  /\ \A i \in 1..Len(file) : WellFormed(file[i].text)

\* C13's case: an insert on which a converter fired left the converted text
\* and the 'Original: ...' entry in the store.
C13_Witness ==
  /\ last.op = "insert"
  /\ convert(last.text) # ""
  /\ Len(items[Caller]) = 2
  /\ items[Caller][1].text = convert(last.text)
  /\ items[Caller][2].text = "Original: " \o last.text

\* C14: after an add that was accepted, a delete, a delete_all and a join
\* that completed, the file holds the items of the list, all of them and in
\* their order, and reading the file gives the list back: same texts, dates,
\* line counts and titles.
C14_Persistence ==
  ( /\ last.op \in {"add", "delete", "delete_all", "join"}
    /\ ~last.raised
    /\ last.op = "add" => ~AddRejects(LastText) )
  => /\ file = dumps(items[Caller])
     /\ ~read(StoreOf(Caller)).raised
     /\ read(StoreOf(Caller)).items = items[Caller]

\* C14's case: a delete that left an item with a title, after the clock
\* moved on from its date.
C14_Witness ==
  /\ last.op = "delete"
  /\ Len(last.before) = 2
  /\ Len(items[Caller]) = 1
  /\ items[Caller][1].title = "Title"
  /\ items[Caller][1].date < now

-----------------------------------------------------------------------------
(* The two processes on one file: claim C15, under SpecBoth. *)

\* C15 as claimed: when a write of a process completes, the file is the
\* list of that process, all of it, whatever the other process wrote since
\* that process loaded its list.
C15_LastWriterWins ==
  last.op = "close"
  => /\ fstate = "whole"
     /\ file = dumps(items[last.proc])

-----------------------------------------------------------------------------
(* The youtu.be rule: claim C16, under SpecConvert. *)

\* C16 as claimed: with the youtu_be rule enabled, https://youtu.be/<id>
\* is converted to https://www.youtube.com/watch?v=<id>, and
\* https://youtu.be/<id>?t=<seconds> to
\* https://www.youtube.com/watch?v=<id>&t=<seconds>s.
C16_YoutuBeRewrite ==
  (last.op = "convert" /\ Settings.converters.youtu_be)
  => \A id \in VideoIds :
       /\ last.text = "https://youtu.be/" \o id
          => last.ans = "https://www.youtube.com/watch?v=" \o id
       /\ \A sec \in Seconds :
            last.text = "https://youtu.be/" \o id \o "?t=" \o sec
            => last.ans = "https://www.youtube.com/watch?v=" \o id
                            \o "&t=" \o sec \o "s"

-----------------------------------------------------------------------------
(* The command line: claim C17, under SpecBoth. *)

\* The last step was main, started with this first argument.
Started(arg) == last.op = "main" /\ last.num > 0 /\ last.text = arg

\* main loaded the store and the menu is displayed from the top.
MenuDisplayed ==
  /\ last.proc = "menu"
  /\ mpc = "displaying"
  /\ items["menu"] = loads(file)
  /\ selected = 0

\* C17 as claimed: with the first argument 'watcher' main runs the watcher
\* loop; with no argument, with 'show' and with any other first argument it
\* loads the store and displays the menu.
C17_OtherArgumentShows ==
  last.op = "main"
  => IF Started("watcher")
       THEN last.proc = "watcher" /\ wpc = "running"
       ELSE MenuDisplayed

\* C17 as amended: with the first argument 'watcher' main runs the watcher
\* loop; with no argument and with 'show' it loads the store and displays
\* the menu (it ends in the load when the file does not parse); with any
\* other first argument it does neither and ends.
C17_ModeSelection ==
  last.op = "main"
  => IF Started("watcher")
       THEN last.proc = "watcher" /\ wpc = "running" /\ iterations = 0
     ELSE IF last.num = 0 \/ Started("show")
       THEN IF last.raised THEN fstate = "garbled" /\ mpc = "crashed"
                           ELSE MenuDisplayed
     ELSE /\ mpc = "done"
          /\ items["menu"] = <<>>
          /\ wpc \in {"idle", "running", "busy"}

\* C17's case: the program is started with the argument 'list' while the
\* watcher runs; nothing is loaded and no watcher loop is entered by it.
C17_Witness ==
  /\ Started("list")
  /\ mpc = "done"
  /\ items["menu"] = <<>>
  /\ items["watcher"] # <<>>

-----------------------------------------------------------------------------
(* The watcher's safeguard: claim C18, under SpecWatcherLive. *)

\* C18: when copyevent keeps returning and, from some point on, no
\* iteration reads a non-empty text and completes its insertion, the watcher
\* exits with status 1.
C18_SafeguardFires == (<>[](~Inserted)) => <>(wpc = "exit(1)")

\* C18's case: the watcher exits after 101 iterations of which none got as
\* far as an insertion.
C18_Witness ==
  /\ wpc = "exit(1)"
  /\ last.op = "exit"
  /\ iterations = 101
  /\ items["watcher"] = <<>>
  /\ file = <<>>

-----------------------------------------------------------------------------
(* The converter branch of Items.insert: claim C19, under SpecStore. *)

\* C19 as claimed: an insert of a text t on which a rule fires puts the
\* converted text at index 0 and 'Original: ' + t at index 1 (max_items at
\* least 2, both texts within heavy_paste) and the converted text on the
\* clipboard; an insert of a text on which no rule fires inserts t and
\* nothing else, and leaves the clipboard alone.
C19_ConverterBranch ==
  last.op = "insert"
  => LET t == last.text
         converted == IF Settings.enable_converters THEN convert(t) ELSE ""
     IN IF converted # ""
          THEN ( /\ Settings.max_items >= 2
                 /\ Len("Original: " \o t) <= Settings.heavy_paste
                 /\ Len(converted) <= Settings.heavy_paste )
               => /\ Len(items[Caller]) >= 2
                  /\ items[Caller][1].text = converted
                  /\ items[Caller][2].text = "Original: " \o t
                  /\ clipboard = converted
          ELSE /\ clipboard = last.clipBefore
               /\ IF AddRejects(LastText)
                    THEN items[Caller] = last.before
                    ELSE /\ items[Caller] # <<>>
                         /\ items[Caller][1].text = LastText
                         /\ \A i \in 2..Len(items[Caller]) :
                              \E j \in 1..Len(last.before) :
                                items[Caller][i] = last.before[j]

-----------------------------------------------------------------------------
(* Loads during a write: claim C20, under SpecBoth. *)

\* The last step was an Items.read: of main in mode 'show', or of a watcher
\* iteration that found a text on the clipboard.
Loaded ==
  \/ last.op = "iteration" /\ last.text # ""
  \/ last.op = "main" /\ last.proc = "menu" /\ (last.num = 0 \/ Started("show"))

\* C20 as claimed: a load never finds the file emptied, or otherwise short
\* of a whole array, by a write of the other process; the list a process
\* goes on to insert into and persist is one that was written whole.
C20_NoTornLoad == Loaded => fstate = "whole"

====
